---- MODULE Spec2Model ----
(***************************************************************************)
(* Model of exercises/08_finale: the pattern parser (PatternParser), the    *)
(* token matcher (MatcherToken::match_string) and the Matcher with its      *)
(* most_tokens_matched counter; of exercises/06_lifetimes_on_impls, the     *)
(* WordIterator; and of exercises/05_lifetimes_on_types, find_difference.   *)
(*                                                                          *)
(* A &str is modelled as its sequence of UTF-8 bytes, and all offsets are   *)
(* BYTE offsets as in the source.  A character is named by its lead byte;   *)
(* "E" is the lead byte of a two-byte codepoint (such as U+00E9) and "M" of *)
(* a four-byte codepoint (U+1F4AA, the one used by simple_test); "~E" and   *)
(* "~M" are their continuation bytes.  Slicing at an offset that is out of  *)
(* range or not on a character boundary panics, as in Rust.                 *)
(***************************************************************************)
EXTENDS Integers, Sequences, FiniteSets, TLC

\* ------------------------------------------------------------------ bounds
MaxPatLen == 3
MaxInputLen == 3

\* ------------------------------------------------------------ &str helpers
\* char::len_utf8
len_utf8(c) == IF c = "E" THEN 2 ELSE IF c = "M" THEN 4 ELSE 1

IsContinuation(b) == b \in {"~E", "~M"}

\* the UTF-8 encoding of one character
Utf8(c) ==
    IF c = "E" THEN <<"E", "~E">>
    ELSE IF c = "M" THEN <<"M", "~M", "~M", "~M">>
    ELSE <<c>>

RECURSIVE Encode(_)
Encode(cs) == IF cs = <<>> THEN <<>> ELSE Utf8(Head(cs)) \o Encode(Tail(cs))

\* str::len
len(s) == Len(s)

is_char_boundary(s, b) ==
    \/ b = 0
    \/ b = Len(s)
    \/ b < Len(s) /\ ~IsContinuation(s[b + 1])

\* &s[a..b] does not panic
SliceOk(s, a, b) ==
    a <= b /\ b <= len(s) /\ is_char_boundary(s, a) /\ is_char_boundary(s, b)

\* &s[a..b], defined when SliceOk(s, a, b)
Slice(s, a, b) == SubSeq(s, a + 1, b)

starts_with(s, t) == Len(t) <= Len(s) /\ SubSeq(s, 1, Len(t)) = t

\* --------------------------------------------------------------- alphabets
Delims == {".", "(", "|", ")"}
Literals == {"a", "E"}
PatChars == Literals \cup Delims
InChars == {"a", "E"}

RECURSIVE StrsUpTo(_, _)
StrsUpTo(S, n) ==
    IF n = 0 THEN {<<>>}
    ELSE LET prev == StrsUpTo(S, n - 1)
         IN  prev \cup {Append(s, c) : s \in prev, c \in S}

\* the patterns and candidates of the tests (simple_test, broken_matcher)
TestPattern == <<"a", "b", "c", "(", "d", "|", "e", "|", "f", ")", ".">>
BrokenPattern == <<"a", "b", "c", "(", "d", "|", "e", "|", "f", ".">>
Candidate1 == <<"a", "b", "c", "g", "e">>
Candidate2 == Encode(<<"a", "b", "c", "d", "M">>)
\* scenario D of the specification and its mirror image
LongerSecond == <<"(", "a", "|", "a", "b", ")">>
LongerFirst == <<"(", "a", "b", "|", "a", ")">>
CandidateD == <<"a", "b", "x">>
\* longer patterns: a two-byte literal before a group and a wildcard, groups
\* without alternatives, two groups in a row
EdgePatterns ==
    {Encode(<<"E", "a", "(", "a", "|", "E", "a", ")", ".", "E">>),
     <<"a", "(", ")", "a">>,
     <<"(", "|", "|", ")", ".">>,
     Encode(<<"(", "a", ")", "(", "E", "|", "a", ")">>),
     <<".", "(", "a", "|", "a", "a", ")", "a", ".">>}
\* a longer candidate: the first of EdgePatterns matches all but its last byte
EdgeInput == Encode(<<"E", "a", "E", "a", "a", "E", "a">>)

Patterns ==
    {Encode(p) : p \in StrsUpTo(PatChars, MaxPatLen)}
        \cup {TestPattern, BrokenPattern, LongerSecond, LongerFirst}
        \cup EdgePatterns
\* the patterns from which two Matcher instances are compiled
PairPatterns ==
    {TestPattern, LongerSecond, LongerFirst} \cup EdgePatterns
        \cup {<<".", ".">>, <<"a", ".">>, Encode(<<".", "E">>),
              <<"(", "a", ")">>, <<"(", ")">>, <<>>, <<"(", "a">>}
Inputs ==
    {Encode(p) : p \in StrsUpTo(InChars, MaxInputLen)}
        \cup {Candidate1, Candidate2, CandidateD, EdgeInput}

\* ------------------------------------------------------------------ tokens
\* A span is the byte range <<start, end>> of the pattern text a &'s str
\* borrows.  RawText carries one span, OneOfText its list, WildCard none.
RawText(span) == [kind |-> "RawText", spans |-> <<span>>]
OneOfText(choices) == [kind |-> "OneOfText", spans |-> choices]
WildCard == [kind |-> "WildCard", spans |-> <<>>]

Deref(txt, span) == Slice(txt, span[1], span[2])

\* ------------------------------------------------------------------- state
VARIABLES
    pc,             \* position of the program
    text,           \* the pattern text handed to Matcher::new
    c_idx,          \* bytes consumed by `for c in self.pattern.chars()`
    bytes_so_far,
    cur_tok_start,  \* Option<usize>: {} is None, {n} is Some(n)
    mat_toks,
    oneof_choices,
    parse_mode,
    pattern,        \* the Result of parse_into (local `pattern` of new)
    matcher,        \* Option<Matcher>: [some, tokens, most_tokens_matched]
    string,         \* argument of the last Matcher::match_string call
    match_result,   \* what the last call returned
    panicked,       \* a slice panicked
    lens_seen,      \* history: the trace lengths returned by calls on matcher
    other,          \* a second Matcher compiled from the same text
    callee,         \* the instance of the last call: 1 matcher, 2 other
    \* exercises/06_lifetimes_on_impls: WordIterator
    wi_pc,          \* "start", "iter" once constructed, "panic"
    wi_string,      \* WordIterator::string
    position,       \* WordIterator::position
    words_vector,   \* the words returned so far, as main collects them
    last_word,      \* what the last next_word call returned: "Some", "None"
    \* exercises/05_lifetimes_on_types: find_difference
    d_pc,           \* "start", "done" once find_difference returned
    sentence1,
    sentence2,
    first_only,     \* Difference::first_only
    second_only     \* Difference::second_only

vars == <<pc, text, c_idx, bytes_so_far, cur_tok_start, mat_toks,
          oneof_choices, parse_mode, pattern, matcher, string,
          match_result, panicked, lens_seen, other, callee,
          wi_pc, wi_string, position, words_vector, last_word,
          d_pc, sentence1, sentence2, first_only, second_only>>

parserVars == <<c_idx, bytes_so_far, cur_tok_start, mat_toks,
                oneof_choices, parse_mode>>
callVars == <<string, match_result, lens_seen, other, callee>>
matcherVars == <<pc, text, pattern, matcher, panicked, parserVars, callVars>>
wordVars == <<wi_pc, wi_string, position, words_vector, last_word>>
\* the variables of the other exercises, which no Matcher operation touches
diffVars == <<d_pc, sentence1, sentence2, first_only, second_only>>
exerciseVars == <<wordVars, diffVars>>

NoResult == [tag |-> "None", tokens |-> <<>>, err |-> "None"]
Ok(toks) == [tag |-> "Ok", tokens |-> toks, err |-> "None"]
Err(e) == [tag |-> "Err", tokens |-> <<>>, err |-> e]

NoMatcher == [some |-> FALSE, tokens |-> <<>>, most_tokens_matched |-> 0]

Init ==
    /\ pc = "start"
    /\ text = <<>>
    /\ c_idx = 0
    /\ bytes_so_far = 0
    /\ cur_tok_start = {}
    /\ mat_toks = <<>>
    /\ oneof_choices = <<>>
    /\ parse_mode = "Standalone"
    /\ pattern = NoResult
    /\ matcher = NoMatcher
    /\ string = <<>>
    /\ match_result = <<>>
    /\ panicked = FALSE
    /\ lens_seen = {}
    /\ other = NoMatcher
    /\ callee = 0
    /\ wi_pc = "start"
    /\ wi_string = <<>>
    /\ position = 0
    /\ words_vector = <<>>
    /\ last_word = "start"
    /\ d_pc = "start"
    /\ sentence1 = <<>>
    /\ sentence2 = <<>>
    /\ first_only = <<>>
    /\ second_only = <<>>

\* ------------------------------------------------------------ PatternParser
\* maybe_extract_token: the span it returns ({} is None), whether the slice
\* panics; cur_tok_start is reset to None by every call.
maybe_extract_token(txt, start, end_idx) ==
    IF end_idx = 0 THEN [res |-> {}, panic |-> FALSE]
    ELSE IF start # {}
         THEN LET start_idx == CHOOSE n \in start : TRUE
              IN  IF SliceOk(txt, start_idx, end_idx)
                  THEN [res |-> {<<start_idx, end_idx>>}, panic |-> FALSE]
                  ELSE [res |-> {}, panic |-> TRUE]
         ELSE [res |-> {}, panic |-> FALSE]

\* .map(|tok| v.push(f(tok)))
PushRaw(v, res) == IF res = {} THEN v ELSE Append(v, RawText(CHOOSE t \in res : TRUE))
PushChoice(v, res) == IF res = {} THEN v ELSE Append(v, CHOOSE t \in res : TRUE)

\* Matcher::new on a pattern of P, up to the construction of the parser
MatcherNewFrom(P) ==
    /\ pc = "start"
    /\ \E t \in P : text' = t
    /\ pc' = "scan"
    /\ c_idx' = 0
    /\ bytes_so_far' = 0
    /\ cur_tok_start' = {}
    /\ mat_toks' = <<>>
    /\ oneof_choices' = <<>>
    /\ parse_mode' = "Standalone"
    /\ UNCHANGED <<pattern, matcher, panicked>>
    /\ UNCHANGED callVars
    /\ UNCHANGED exerciseVars

MatcherNew == MatcherNewFrom(Patterns)

\* the same for the patterns used with two instances
MatcherNewPair == MatcherNewFrom(PairPatterns)

\* the character the iterator yields: the one whose lead byte is next
CurChar == text[c_idx + 1]

ParseErr(e) ==
    /\ pattern' = Err(e)
    /\ pc' = "parsed"
    /\ UNCHANGED <<text, matcher, panicked>>
    /\ UNCHANGED parserVars
    /\ UNCHANGED exerciseVars
    /\ UNCHANGED callVars

ParsePanic ==
    /\ panicked' = TRUE
    /\ pc' = "parse_panic"
    /\ UNCHANGED <<text, matcher, pattern>>
    /\ UNCHANGED parserVars
    /\ UNCHANGED exerciseVars
    /\ UNCHANGED callVars

\* Advance that counts characters instead of bytes
Advance_OneByte ==
    /\ bytes_so_far' = bytes_so_far + 1
    /\ c_idx' = c_idx + len_utf8(CurChar)
    /\ pc' = "scan"
    /\ UNCHANGED <<text, matcher, pattern, panicked>>
    /\ UNCHANGED callVars
    /\ UNCHANGED exerciseVars

Advance ==
    /\ bytes_so_far' = bytes_so_far + len_utf8(CurChar)
    /\ c_idx' = c_idx + len_utf8(CurChar)
    /\ pc' = "scan"
    /\ UNCHANGED <<text, matcher, pattern, panicked>>
    /\ UNCHANGED callVars
    /\ UNCHANGED exerciseVars

\* ScanDot that leaves cur_tok_start as it is after the flush
ScanDot_NoReset ==
    /\ pc = "scan" /\ c_idx < Len(text) /\ CurChar = "."
    /\ IF parse_mode = "OneOf" THEN ParseErr("WildcardInOneOf")
       ELSE LET r == maybe_extract_token(text, cur_tok_start, bytes_so_far)
            IN  IF r.panic THEN ParsePanic
                ELSE /\ UNCHANGED cur_tok_start
                     /\ mat_toks' = Append(PushRaw(mat_toks, r.res), WildCard)
                     /\ UNCHANGED <<oneof_choices, parse_mode>>
                     /\ Advance

\* ScanDot without the WildcardInOneOf check
ScanDot_NoCheck ==
    /\ pc = "scan" /\ c_idx < Len(text) /\ CurChar = "."
    /\ LET r == maybe_extract_token(text, cur_tok_start, bytes_so_far)
       IN  IF r.panic THEN ParsePanic
           ELSE /\ cur_tok_start' = {}
                /\ mat_toks' = Append(PushRaw(mat_toks, r.res), WildCard)
                /\ UNCHANGED <<oneof_choices, parse_mode>>
                /\ Advance

ScanDot ==
    /\ pc = "scan" /\ c_idx < Len(text) /\ CurChar = "."
    /\ IF parse_mode = "OneOf" THEN ParseErr("WildcardInOneOf")
       ELSE LET r == maybe_extract_token(text, cur_tok_start, bytes_so_far)
            IN  IF r.panic THEN ParsePanic
                ELSE /\ cur_tok_start' = {}
                     /\ mat_toks' = Append(PushRaw(mat_toks, r.res), WildCard)
                     /\ UNCHANGED <<oneof_choices, parse_mode>>
                     /\ Advance

\* ScanOpen that leaves cur_tok_start as it is after the flush
ScanOpen_NoReset ==
    /\ pc = "scan" /\ c_idx < Len(text) /\ CurChar = "("
    /\ IF parse_mode = "OneOf" THEN ParseErr("RecursiveOneOf")
       ELSE LET r == maybe_extract_token(text, cur_tok_start, bytes_so_far)
            IN  IF r.panic THEN ParsePanic
                ELSE /\ UNCHANGED cur_tok_start
                     /\ mat_toks' = PushRaw(mat_toks, r.res)
                     /\ parse_mode' = "OneOf"
                     /\ UNCHANGED oneof_choices
                     /\ Advance

ScanOpen ==
    /\ pc = "scan" /\ c_idx < Len(text) /\ CurChar = "("
    /\ IF parse_mode = "OneOf" THEN ParseErr("RecursiveOneOf")
       ELSE LET r == maybe_extract_token(text, cur_tok_start, bytes_so_far)
            IN  IF r.panic THEN ParsePanic
                ELSE /\ cur_tok_start' = {}
                     /\ mat_toks' = PushRaw(mat_toks, r.res)
                     /\ parse_mode' = "OneOf"
                     /\ UNCHANGED oneof_choices
                     /\ Advance

\* ScanPipe without the PipeNotAllowedInStandalone check
ScanPipe_NoCheck ==
    /\ pc = "scan" /\ c_idx < Len(text) /\ CurChar = "|"
    /\ LET r == maybe_extract_token(text, cur_tok_start, bytes_so_far)
       IN  IF r.panic THEN ParsePanic
           ELSE /\ cur_tok_start' = {}
                /\ oneof_choices' = PushChoice(oneof_choices, r.res)
                /\ UNCHANGED <<mat_toks, parse_mode>>
                /\ Advance

ScanPipe ==
    /\ pc = "scan" /\ c_idx < Len(text) /\ CurChar = "|"
    /\ IF parse_mode = "Standalone" THEN ParseErr("PipeNotAllowedInStandalone")
       ELSE LET r == maybe_extract_token(text, cur_tok_start, bytes_so_far)
            IN  IF r.panic THEN ParsePanic
                ELSE /\ cur_tok_start' = {}
                     /\ oneof_choices' = PushChoice(oneof_choices, r.res)
                     /\ UNCHANGED <<mat_toks, parse_mode>>
                     /\ Advance

\* ScanClose without oneof_choices.clear()
ScanClose_NoClear ==
    /\ pc = "scan" /\ c_idx < Len(text) /\ CurChar = ")"
    /\ IF parse_mode = "Standalone" THEN ParseErr("ClosingParenInStandalone")
       ELSE LET r == maybe_extract_token(text, cur_tok_start, bytes_so_far)
            IN  IF r.panic THEN ParsePanic
                ELSE /\ cur_tok_start' = {}
                     /\ parse_mode' = "Standalone"
                     /\ mat_toks' = Append(mat_toks,
                                       OneOfText(PushChoice(oneof_choices, r.res)))
                     /\ oneof_choices' = PushChoice(oneof_choices, r.res)
                     /\ Advance

ScanClose ==
    /\ pc = "scan" /\ c_idx < Len(text) /\ CurChar = ")"
    /\ IF parse_mode = "Standalone" THEN ParseErr("ClosingParenInStandalone")
       ELSE LET r == maybe_extract_token(text, cur_tok_start, bytes_so_far)
            IN  IF r.panic THEN ParsePanic
                ELSE /\ cur_tok_start' = {}
                     /\ parse_mode' = "Standalone"
                     /\ mat_toks' = Append(mat_toks,
                                       OneOfText(PushChoice(oneof_choices, r.res)))
                     /\ oneof_choices' = <<>>
                     /\ Advance

\* ScanLiteral that moves the start marker on every character
ScanLiteral_Restart ==
    /\ pc = "scan" /\ c_idx < Len(text) /\ CurChar \notin Delims
    /\ cur_tok_start' = {bytes_so_far}
    /\ UNCHANGED <<mat_toks, oneof_choices, parse_mode>>
    /\ Advance

ScanLiteral ==
    /\ pc = "scan" /\ c_idx < Len(text) /\ CurChar \notin Delims
    /\ cur_tok_start' = IF cur_tok_start = {} THEN {bytes_so_far}
                        ELSE cur_tok_start
    /\ UNCHANGED <<mat_toks, oneof_choices, parse_mode>>
    /\ Advance

\* ParseEnd without the Incomplete check
ParseEnd_NoCheck ==
    /\ pc = "scan" /\ c_idx = Len(text)
    /\ LET r == maybe_extract_token(text, cur_tok_start, bytes_so_far)
       IN  IF r.panic THEN ParsePanic
           ELSE /\ cur_tok_start' = {}
                /\ mat_toks' = PushRaw(mat_toks, r.res)
                /\ pattern' = Ok(mat_toks')
                /\ pc' = "parsed"
                /\ UNCHANGED <<c_idx, bytes_so_far, oneof_choices,
                               parse_mode, text, matcher, panicked>>
                /\ UNCHANGED callVars
                /\ UNCHANGED exerciseVars

\* after the loop
ParseEnd ==
    /\ pc = "scan" /\ c_idx = Len(text)
    /\ IF parse_mode = "OneOf" THEN ParseErr("Incomplete")
       ELSE LET r == maybe_extract_token(text, cur_tok_start, bytes_so_far)
            IN  IF r.panic THEN ParsePanic
                ELSE /\ cur_tok_start' = {}
                     /\ mat_toks' = PushRaw(mat_toks, r.res)
                     /\ pattern' = Ok(mat_toks')
                     /\ pc' = "parsed"
                     /\ UNCHANGED <<c_idx, bytes_so_far, oneof_choices,
                                    parse_mode, text, matcher, panicked>>
                     /\ UNCHANGED callVars
                     /\ UNCHANGED exerciseVars

\* new with unwrap_or_default in place of ok().map: an error gives a Matcher
\* without tokens
new_default(res) ==
    [some |-> TRUE, tokens |-> res.tokens, most_tokens_matched |-> 0]

\* Matcher::new, after parse_into returned: pattern.ok().map(...)
new(res) ==
    IF res.tag = "Ok"
    THEN [some |-> TRUE, tokens |-> res.tokens, most_tokens_matched |-> 0]
    ELSE NoMatcher

MatcherNewReturn ==
    /\ pc = "parsed"
    /\ matcher' = new(pattern)
    /\ pc' = "ready"
    /\ UNCHANGED <<text, pattern, panicked>>
    /\ UNCHANGED parserVars
    /\ UNCHANGED exerciseVars
    /\ UNCHANGED callVars

\* ------------------------------------------------- MatcherToken::match_string
max(a, b) == IF a >= b THEN a ELSE b

NoneStr == [some |-> FALSE, matched |-> <<>>, panic |-> FALSE]
PanicStr == [some |-> FALSE, matched |-> <<>>, panic |-> TRUE]

\* Option::Some(&input[..n])
SomePrefix(input, n) ==
    IF SliceOk(input, 0, n)
    THEN [some |-> TRUE, matched |-> Slice(input, 0, n), panic |-> FALSE]
    ELSE PanicStr

\* longest_match that keeps the first alternative that matches
RECURSIVE longest_match_first(_, _, _, _, _)
longest_match_first(choices, txt, input, i, longest) ==
    IF i > Len(choices) THEN longest
    ELSE LET ch == Deref(txt, choices[i])
         IN  IF starts_with(input, ch) /\ longest = 0
             THEN longest_match_first(choices, txt, input, i + 1, len(ch))
             ELSE longest_match_first(choices, txt, input, i + 1, longest)

\* the loop `for &ch in choices.iter()` from choice i on
RECURSIVE longest_match(_, _, _, _, _)
longest_match(choices, txt, input, i, longest) ==
    IF i > Len(choices) THEN longest
    ELSE LET ch == Deref(txt, choices[i])
         IN  IF starts_with(input, ch) /\ len(ch) > longest
             THEN longest_match(choices, txt, input, i + 1, len(ch))
             ELSE longest_match(choices, txt, input, i + 1, longest)

\* tok_match_string whose wildcard takes one byte
tok_match_string_byte(tok, txt, input) ==
    IF tok.kind = "RawText" /\ starts_with(input, Deref(txt, tok.spans[1]))
    THEN SomePrefix(input, len(Deref(txt, tok.spans[1])))
    ELSE IF tok.kind = "OneOfText"
    THEN LET longest == longest_match(tok.spans, txt, input, 1, 0)
         IN  IF longest > 0 THEN SomePrefix(input, longest) ELSE NoneStr
    ELSE IF tok.kind = "WildCard" /\ input # <<>>
    THEN SomePrefix(input, 1)
    ELSE NoneStr

\* tok_match_string whose group matches when longest_match >= 0
tok_match_string_empty(tok, txt, input) ==
    IF tok.kind = "RawText" /\ starts_with(input, Deref(txt, tok.spans[1]))
    THEN SomePrefix(input, len(Deref(txt, tok.spans[1])))
    ELSE IF tok.kind = "OneOfText"
    THEN LET longest == longest_match(tok.spans, txt, input, 1, 0)
         IN  IF longest >= 0 THEN SomePrefix(input, longest) ELSE NoneStr
    ELSE IF tok.kind = "WildCard" /\ input # <<>>
    THEN LET first_char == input[1]
         IN  SomePrefix(input, len_utf8(first_char))
    ELSE NoneStr

\* tok_match_string whose wildcard takes all the remaining input
tok_match_string_rest(tok, txt, input) ==
    IF tok.kind = "RawText" /\ starts_with(input, Deref(txt, tok.spans[1]))
    THEN SomePrefix(input, len(Deref(txt, tok.spans[1])))
    ELSE IF tok.kind = "OneOfText"
    THEN LET longest == longest_match(tok.spans, txt, input, 1, 0)
         IN  IF longest > 0 THEN SomePrefix(input, longest) ELSE NoneStr
    ELSE IF tok.kind = "WildCard" /\ input # <<>>
    THEN SomePrefix(input, len(input))
    ELSE NoneStr

tok_match_string(tok, txt, input) ==
    IF tok.kind = "RawText" /\ starts_with(input, Deref(txt, tok.spans[1]))
    THEN SomePrefix(input, len(Deref(txt, tok.spans[1])))
    ELSE IF tok.kind = "OneOfText"
    THEN LET longest == longest_match(tok.spans, txt, input, 1, 0)
         IN  IF longest > 0 THEN SomePrefix(input, longest) ELSE NoneStr
    ELSE IF tok.kind = "WildCard" /\ input # <<>>
    THEN LET first_char == input[1]
         IN  SomePrefix(input, len_utf8(first_char))
    ELSE NoneStr

\* ------------------------------------------------------ Matcher::match_string
\* match_loop with `continue` in place of `break`
RECURSIVE match_loop_continue(_, _, _, _, _, _)
match_loop_continue(tokens, txt, str, i, matched_till, result) ==
    IF i > Len(tokens) THEN [panic |-> FALSE, result |-> result]
    ELSE IF ~SliceOk(str, matched_till, len(str))
    THEN [panic |-> TRUE, result |-> result]
    ELSE LET m == tok_match_string(tokens[i], txt,
                                   Slice(str, matched_till, len(str)))
         IN  IF m.panic THEN [panic |-> TRUE, result |-> result]
             ELSE IF m.some
             THEN match_loop_continue(tokens, txt, str, i + 1,
                             matched_till + len(m.matched),
                             Append(result, [tok |-> i, matched |-> m.matched,
                                             till |-> matched_till + len(m.matched)]))
             ELSE match_loop_continue(tokens, txt, str, i + 1,
                             matched_till, result)

\* match_loop that moves the cursor by one byte per matched token
RECURSIVE match_loop_step(_, _, _, _, _, _)
match_loop_step(tokens, txt, str, i, matched_till, result) ==
    IF i > Len(tokens) THEN [panic |-> FALSE, result |-> result]
    ELSE IF ~SliceOk(str, matched_till, len(str))
    THEN [panic |-> TRUE, result |-> result]
    ELSE LET m == tok_match_string(tokens[i], txt,
                                   Slice(str, matched_till, len(str)))
         IN  IF m.panic THEN [panic |-> TRUE, result |-> result]
             ELSE IF m.some
             THEN match_loop_step(tokens, txt, str, i + 1,
                             matched_till + 1,
                             Append(result, [tok |-> i, matched |-> m.matched,
                                             till |-> matched_till + 1]))
             ELSE [panic |-> FALSE, result |-> result]

\* the loop `for tok in self.tokens.iter()` from token i on; a pair of the
\* result is (reference to token tok, matched substring), and `till` records
\* the value of matched_till after the pair was pushed
RECURSIVE match_loop(_, _, _, _, _, _)
match_loop(tokens, txt, str, i, matched_till, result) ==
    IF i > Len(tokens) THEN [panic |-> FALSE, result |-> result]
    ELSE IF ~SliceOk(str, matched_till, len(str))
    THEN [panic |-> TRUE, result |-> result]
    ELSE LET m == tok_match_string(tokens[i], txt,
                                   Slice(str, matched_till, len(str)))
         IN  IF m.panic THEN [panic |-> TRUE, result |-> result]
             ELSE IF m.some
             THEN match_loop(tokens, txt, str, i + 1,
                             matched_till + len(m.matched),
                             Append(result, [tok |-> i, matched |-> m.matched,
                                             till |-> matched_till + len(m.matched)]))
             ELSE [panic |-> FALSE, result |-> result]

most_after_last(most, result) == Len(result)

most_after(most, result) == max(most, Len(result))

\* MatchString with one counter shared by all instances
MatchString_Shared ==
    /\ pc = "ready" /\ matcher.some
    /\ \E s \in Inputs :
         LET r == match_loop(matcher.tokens, text, s, 1, 0, <<>>)
         IN  IF r.panic
             THEN /\ panicked' = TRUE
                  /\ pc' = "match_panic"
                  /\ string' = s
                  /\ UNCHANGED <<matcher, match_result, lens_seen, other>>
             ELSE /\ matcher' = [matcher EXCEPT !.most_tokens_matched =
                                    most_after(@, r.result)]
                  /\ other' = IF other.some
                              THEN [other EXCEPT !.most_tokens_matched =
                                       most_after(@, r.result)]
                              ELSE other
                  /\ string' = s
                  /\ match_result' = r.result
                  /\ lens_seen' = lens_seen \cup {Len(r.result)}
                  /\ UNCHANGED <<pc, panicked>>
    /\ callee' = 1
    /\ UNCHANGED <<text, pattern>>
    /\ UNCHANGED parserVars
    /\ UNCHANGED exerciseVars

\* a call matcher.match_string(s)
MatchString ==
    /\ pc = "ready" /\ matcher.some
    /\ \E s \in Inputs :
         LET r == match_loop(matcher.tokens, text, s, 1, 0, <<>>)
         IN  IF r.panic
             THEN /\ panicked' = TRUE
                  /\ pc' = "match_panic"
                  /\ string' = s
                  /\ UNCHANGED <<matcher, match_result, lens_seen>>
             ELSE /\ matcher' = [matcher EXCEPT !.most_tokens_matched =
                                    most_after(@, r.result)]
                  /\ string' = s
                  /\ match_result' = r.result
                  /\ lens_seen' = lens_seen \cup {Len(r.result)}
                  /\ UNCHANGED <<pc, panicked>>
    /\ callee' = 1
    /\ UNCHANGED other
    /\ UNCHANGED <<text, pattern>>
    /\ UNCHANGED parserVars
    /\ UNCHANGED exerciseVars

\* a second Matcher::new(&text): parse_into reads nothing but the pattern
\* text, so it returns the Result it returned to the first call
OtherNew ==
    /\ pc = "ready" /\ matcher.some /\ ~other.some
    /\ other' = new(pattern)
    /\ UNCHANGED <<pc, text, pattern, matcher, panicked, string,
                   match_result, lens_seen, callee>>
    /\ UNCHANGED parserVars
    /\ UNCHANGED exerciseVars

\* a call other.match_string(s)
OtherMatchString ==
    /\ pc = "ready" /\ other.some
    /\ \E s \in Inputs :
         LET r == match_loop(other.tokens, text, s, 1, 0, <<>>)
         IN  IF r.panic
             THEN /\ panicked' = TRUE
                  /\ pc' = "match_panic"
                  /\ string' = s
                  /\ UNCHANGED <<other, match_result>>
             ELSE /\ other' = [other EXCEPT !.most_tokens_matched =
                                    most_after(@, r.result)]
                  /\ string' = s
                  /\ match_result' = r.result
                  /\ UNCHANGED <<pc, panicked>>
    /\ callee' = 2
    /\ UNCHANGED <<matcher, lens_seen>>
    /\ UNCHANGED <<text, pattern>>
    /\ UNCHANGED parserVars
    /\ UNCHANGED exerciseVars

Next ==
    \/ MatcherNew
    \/ ScanDot
    \/ ScanOpen
    \/ ScanPipe
    \/ ScanClose
    \/ ScanLiteral
    \/ ParseEnd
    \/ MatcherNewReturn
    \/ MatchString

Spec == Init /\ [][Next]_vars

\* two Matcher instances compiled from one pattern, called in any order
NextTwo ==
    \/ MatcherNewPair
    \/ ScanDot
    \/ ScanOpen
    \/ ScanPipe
    \/ ScanClose
    \/ ScanLiteral
    \/ ParseEnd
    \/ MatcherNewReturn
    \/ MatchString
    \/ OtherNew
    \/ OtherMatchString

SpecTwo == Init /\ [][NextTwo]_vars


\* ------------------------------------- exercises/06: WordIterator::next_word
MaxSentenceLen == 4

WordChars == {"a", "E", " "}
Sentences == {Encode(p) : p \in StrsUpTo(WordChars, MaxSentenceLen)}

\* WordIterator::new
WordIteratorNew ==
    /\ wi_pc = "start"
    /\ \E s \in Sentences : wi_string' = s
    /\ position' = 0
    /\ wi_pc' = "iter"
    /\ UNCHANGED <<words_vector, last_word>>
    /\ UNCHANGED matcherVars
    /\ UNCHANGED diffVars

\* start_of_word.find(' ').unwrap_or(start_of_word.len())
index_of_next_space(start_of_word) ==
    IF \E i \in 1..Len(start_of_word) : start_of_word[i] = " "
    THEN (CHOOSE i \in 1..Len(start_of_word) :
             /\ start_of_word[i] = " "
             /\ \A j \in 1..(i - 1) : start_of_word[j] # " ") - 1
    ELSE len(start_of_word)

\* one call of next_word
NextWord ==
    /\ wi_pc = "iter"
    /\ IF ~SliceOk(wi_string, position, len(wi_string))
       THEN /\ wi_pc' = "panic"
            /\ UNCHANGED <<wi_string, position, words_vector, last_word>>
       ELSE LET start_of_word == Slice(wi_string, position, len(wi_string))
                idx == index_of_next_space(start_of_word)
            IN  IF len(start_of_word) # 0
                THEN /\ position' = position + idx + 1
                     /\ words_vector' =
                            Append(words_vector, Slice(start_of_word, 0, idx))
                     /\ last_word' = "Some"
                     /\ UNCHANGED <<wi_pc, wi_string>>
                ELSE /\ last_word' = "None"
                     /\ UNCHANGED <<wi_pc, wi_string, position, words_vector>>
    /\ UNCHANGED matcherVars
    /\ UNCHANGED diffVars

NextWords == WordIteratorNew \/ NextWord

SpecWords == Init /\ [][NextWords]_vars

\* -------------------------------------- exercises/05: find_difference
MaxDiffLen == 3

DiffChars == {"a", "b", " "}
\* longer sentences: a repeated word, words in both sentences, words that
\* are not in sorted order in the sentence
DiffSentences ==
    StrsUpTo(DiffChars, MaxDiffLen)
        \cup {<<"c", " ", "b", "a", " ", "b", " ", "c">>,
              <<"b", " ", "d">>}

\* the value of a byte, which orders strings
byte_val(b) ==
    IF b = " " THEN 32
    ELSE IF b = "a" THEN 97
    ELSE IF b = "b" THEN 98
    ELSE IF b = "c" THEN 99
    ELSE 100

\* x < y for &str: lexicographic by bytes
RECURSIVE str_lt(_, _)
str_lt(x, y) ==
    IF y = <<>> THEN FALSE
    ELSE IF x = <<>> THEN TRUE
    ELSE IF byte_val(Head(x)) < byte_val(Head(y)) THEN TRUE
    ELSE IF byte_val(Head(x)) > byte_val(Head(y)) THEN FALSE
    ELSE str_lt(Tail(x), Tail(y))

\* sentence.split(" "): the pieces between the spaces, empty ones included
RECURSIVE split(_)
split(s) ==
    IF \E i \in 1..Len(s) : s[i] = " "
    THEN LET idx == index_of_next_space(s)
         IN  <<SubSeq(s, 1, idx)>> \o split(SubSeq(s, idx + 2, Len(s)))
    ELSE <<s>>

\* .collect() into a HashSet
collect(v) == {v[i] : i \in 1..Len(v)}

\* the orders in which iterating a HashSet can yield its elements
IterOrders(S) ==
    {f \in [1..Cardinality(S) -> S] :
        \A i, j \in 1..Cardinality(S) : i # j => f[i] # f[j]}

\* the loop `for word in &words { if !others.contains(word) { push } }`
RECURSIVE push_missing(_, _)
push_missing(order, others) ==
    IF order = <<>> THEN <<>>
    ELSE IF Head(order) \notin others
         THEN <<Head(order)>> \o push_missing(Tail(order), others)
         ELSE push_missing(Tail(order), others)

\* v with x inserted before the first element that is greater than x
RECURSIVE insert(_, _)
insert(v, x) ==
    IF v = <<>> THEN <<x>>
    ELSE IF str_lt(x, Head(v)) THEN <<x>> \o v
    ELSE <<Head(v)>> \o insert(Tail(v), x)

\* sort that leaves the vector as it is
sort_none(v) == v

\* Vec::sort
RECURSIVE sort(_)
sort(v) == IF v = <<>> THEN <<>> ELSE insert(sort(Tail(v)), Head(v))

find_difference ==
    /\ d_pc = "start"
    /\ \E s1, s2 \in DiffSentences :
         LET sentence_1_words == collect(split(s1))
             sentence_2_words == collect(split(s2))
         IN  /\ sentence1' = s1
             /\ sentence2' = s2
             /\ \E o1 \in IterOrders(sentence_1_words) :
                  first_only' = sort(push_missing(o1, sentence_2_words))
             /\ \E o2 \in IterOrders(sentence_2_words) :
                  second_only' = sort(push_missing(o2, sentence_1_words))
    /\ d_pc' = "done"
    /\ UNCHANGED matcherVars
    /\ UNCHANGED wordVars

SpecDiff == Init /\ [][find_difference]_vars

\* ================================================================== claims
\* the state right after a Matcher::match_string call returned
Called == pc = "ready" /\ matcher.some /\ lens_seen # {}

\* the cursor after the first k pairs of the returned trace
RECURSIVE Cursor(_)
Cursor(k) == IF k = 0 THEN 0 ELSE Cursor(k - 1) + len(match_result[k].matched)

\* the input that remains at cursor c
Rest(c) == SubSeq(string, c + 1, Len(string))

\* token k matches the input at the cursor left by the k-1 pairs before it
MatchesAt(k) == tok_match_string(matcher.tokens[k], text, Rest(Cursor(k - 1)))

\* C1: the trace returned by Matcher::match_string is exactly the pairs
\* (token i, matched substring) of the longest initial run of tokens each of
\* which matches the input at the cursor left by its predecessors; the first
\* token that fails ends the trace, whatever the tokens after it would match.
C1_LongestInitialRun ==
    Called =>
        LET n == Len(match_result)
        IN  /\ n <= Len(matcher.tokens)
            /\ \A k \in 1..n :
                 /\ match_result[k].tok = k
                 /\ MatchesAt(k).some
                 /\ match_result[k].matched = MatchesAt(k).matched
                 /\ match_result[k].matched =
                        SubSeq(string, Cursor(k - 1) + 1, Cursor(k))
            /\ n < Len(matcher.tokens) => ~MatchesAt(n + 1).some

\* C1 witness: a partial trace whose failing token is followed by a token
\* that would have matched at the cursor where the scan stopped.
C1_Witness ==
    /\ Called
    /\ Len(match_result) >= 1
    /\ Len(match_result) + 2 <= Len(matcher.tokens)
    /\ tok_match_string(matcher.tokens[Len(match_result) + 2], text,
                        Rest(Cursor(Len(match_result)))).some

SetMax(S) == CHOOSE m \in S : \A x \in S : x <= m

\* C2: most_tokens_matched is the maximum trace length returned by any call
\* so far, and 0 before the first call (hence it never decreases).
C2_MostIsMaxSoFar ==
    matcher.most_tokens_matched = SetMax(lens_seen \cup {0})

\* C2 witness: a call returned fewer pairs than an earlier one.
C2_Witness ==
    /\ Called
    /\ Len(match_result) < matcher.most_tokens_matched
    /\ Cardinality(lens_seen) >= 2
\* ------------------------------------------------- claims about compilation
\* parse_into has returned
Parsed == pc \in {"parsed", "ready"}
\* Matcher::new has returned
Returned == pc = "ready"

ErrorKinds == {"WildcardInOneOf", "RecursiveOneOf",
               "PipeNotAllowedInStandalone", "ClosingParenInStandalone",
               "Incomplete"}

\* byte i of pattern t lies after a `(` that no `)` before i closes
InGroup(t, i) ==
    \E j \in 1..(i - 1) :
        t[j] = "(" /\ \A k \in (j + 1)..(i - 1) : t[k] # ")"

\* the group opened at byte j is never closed
OpenedAt(t, j) == t[j] = "(" /\ \A k \in (j + 1)..Len(t) : t[k] # ")"
Unterminated(t) == \E j \in 1..Len(t) : OpenedAt(t, j)

\* byte i is a delimiter that is illegal in the mode in which it is scanned
Illegal(t, i) ==
    IF InGroup(t, i) THEN t[i] \in {".", "("} ELSE t[i] \in {"|", ")"}
HasIllegal(t) == \E i \in 1..Len(t) : Illegal(t, i)
FirstIllegal(t) ==
    CHOOSE i \in 1..Len(t) : Illegal(t, i) /\ \A j \in 1..(i - 1) : ~Illegal(t, j)

KindOf(c) ==
    IF c = "." THEN "WildcardInOneOf"
    ELSE IF c = "(" THEN "RecursiveOneOf"
    ELSE IF c = "|" THEN "PipeNotAllowedInStandalone"
    ELSE "ClosingParenInStandalone"

\* the scan opens a group at byte j (nothing before j is illegal) and no
\* later `)` closes it
LeftOpen(t) ==
    \E j \in 1..Len(t) :
        OpenedAt(t, j) /\ \A i \in 1..j : ~Illegal(t, i)

\* C3 (as stated): every pattern with an unterminated group, a `(` with no
\* later `)`, fails with Incomplete; in particular "abc(d|e|f." does.  The
\* claim is stated for the patterns in which the scan really opens the
\* group, the reading most favourable to it.
C3_AlwaysIncomplete ==
    (Parsed /\ LeftOpen(text)) => pattern = Err("Incomplete")

\* C3 (amended): every pattern with an unterminated group fails to compile;
\* the kind is Incomplete exactly when no character is illegal in the mode in
\* which it is scanned, otherwise it is the kind of the earliest illegal
\* character, and "abc(d|e|f." yields WildcardInOneOf.
C3_UnterminatedFails ==
    (Parsed /\ Unterminated(text)) =>
        /\ pattern.tag = "Err"
        /\ pattern.err = "Incomplete" <=> ~HasIllegal(text)
        /\ HasIllegal(text) => pattern.err = KindOf(text[FirstIllegal(text)])
        /\ text = BrokenPattern => pattern.err = "WildcardInOneOf"

\* C3 witness: parse_into returned Incomplete for an unterminated group that
\* has alternatives and no illegal character.
C3_Witness ==
    /\ Parsed /\ Unterminated(text) /\ ~HasIllegal(text)
    /\ pattern = Err("Incomplete")
    /\ oneof_choices # <<>>

\* C4: for every pattern in which a group is opened and never closed,
\* Matcher::new returns None, whatever follows the `(`.
C4_UnterminatedGivesNone ==
    (Returned /\ Unterminated(text)) => ~matcher.some

\* C4 witness: Matcher::new returned None for the pattern of broken_matcher.
C4_Witness ==
    Returned /\ Unterminated(text) /\ text = BrokenPattern /\ matcher = NoMatcher

\* C5 (as stated): every OneOfText token of a successfully compiled token
\* sequence has at least one alternative.
C5_OneOfNeverEmpty ==
    (Parsed /\ pattern.tag = "Ok") =>
        \A k \in 1..Len(pattern.tokens) :
            pattern.tokens[k].kind = "OneOfText" =>
                Len(pattern.tokens[k].spans) >= 1

\* C6 (as stated): when compilation fails, the value Matcher::new returns
\* tells its caller which ParseError kind occurred: it differs from the value
\* returned for every other kind.
C6_CallerSeesKind ==
    (Returned /\ pattern.tag = "Err") =>
        \A e \in ErrorKinds \ {pattern.err} : matcher # new(Err(e))

\* C6 (amended): when compilation fails, parse_into returns one specific
\* ParseError kind to Matcher::new, and Matcher::new returns None exactly
\* when parse_into failed: its caller learns that compilation failed, not why.
C6_FailureGivesNone ==
    Returned =>
        /\ pattern.tag \in {"Ok", "Err"}
        /\ pattern.tag = "Err" <=> ~matcher.some
        /\ pattern.tag = "Err" => pattern.err \in ErrorKinds /\ matcher = NoMatcher
        /\ pattern.tag = "Ok" => matcher.tokens = pattern.tokens

\* C6 witness: Matcher::new returned None although parse_into told it that
\* the pattern nests a group.
C6_Witness ==
    Returned /\ pattern = Err("RecursiveOneOf") /\ ~matcher.some

\* C7: parse_into fails with the error of the earliest character that is
\* illegal in the mode in which it is scanned; later characters do not matter.
C7_EarliestViolation ==
    (Parsed /\ HasIllegal(text)) =>
        pattern = Err(KindOf(text[FirstIllegal(text)]))

\* C7 witness: the error returned is that of the first violation although a
\* later character is a violation of a different kind.
C7_Witness ==
    /\ Parsed /\ HasIllegal(text)
    /\ pattern.tag = "Err"
    /\ \E j \in (FirstIllegal(text) + 1)..Len(text) :
         /\ text[j] \in Delims
         /\ text[j] # text[FirstIllegal(text)]
         /\ Illegal(text, j)
\* ------------------------------------------------------------- C8: tokens
IsLit(t, i) == t[i] \notin Delims

\* balanced, non-nested groups and no stray delimiter
WellFormed(t) == ~HasIllegal(t) /\ ~InGroup(t, Len(t) + 1)

\* the last byte of the literal run that contains byte i
RunEnd(t, i) ==
    CHOOSE e \in i..Len(t) :
        /\ \A k \in i..e : IsLit(t, k)
        /\ e = Len(t) \/ ~IsLit(t, e + 1)

RunStart(t, i) == IsLit(t, i) /\ (i = 1 \/ ~IsLit(t, i - 1))

\* the span of the literal run that starts at byte i
RunSpan(t, i) == <<i - 1, RunEnd(t, i)>>

\* the `)` that closes the group opened at byte i
CloseOf(t, i) == CHOOSE j \in (i + 1)..Len(t) :
                    t[j] = ")" /\ \A k \in (i + 1)..(j - 1) : t[k] # ")"

\* the elements of a set of numbers in increasing order
RECURSIVE Sorted(_)
Sorted(S) ==
    IF S = {} THEN <<>>
    ELSE LET m == CHOOSE x \in S : \A y \in S : x <= y
         IN  <<m>> \o Sorted(S \ {m})

\* where the tokens of a well-formed pattern start: every wildcard, every
\* `(`, every literal run outside groups
TokenStarts(t) ==
    {i \in 1..Len(t) :
        \/ t[i] = "."
        \/ t[i] = "("
        \/ RunStart(t, i) /\ ~InGroup(t, i)}

ExpectedToken(t, i) ==
    IF t[i] = "." THEN WildCard
    ELSE IF t[i] = "("
    THEN LET alts == Sorted({j \in (i + 1)..(CloseOf(t, i) - 1) : RunStart(t, j)})
         IN  OneOfText([k \in 1..Len(alts) |-> RunSpan(t, alts[k])])
    ELSE RawText(RunSpan(t, i))

ExpectedTokens(t) ==
    LET starts == Sorted(TokenStarts(t))
    IN  [k \in 1..Len(starts) |-> ExpectedToken(t, starts[k])]

\* C8: a pattern with balanced, non-nested groups and no stray delimiter
\* compiles, and its tokens are, in source order, one RawText per maximal
\* literal run outside groups, one OneOfText per group holding the literal
\* runs between its parentheses in order, and one WildCard per `.`.
C8_TokensInSourceOrder ==
    (Parsed /\ WellFormed(text)) =>
        /\ pattern = Ok(ExpectedTokens(text))
        /\ Len(pattern.tokens) = Cardinality(TokenStarts(text))

\* C8 witness: a compiled pattern with a literal run, a wildcard and a group
\* of at least two alternatives, one of them longer than one character.
C8_Witness ==
    /\ Parsed /\ WellFormed(text) /\ pattern.tag = "Ok"
    /\ \E i, j, k \in 1..Len(pattern.tokens) :
         /\ pattern.tokens[i].kind = "RawText"
         /\ pattern.tokens[j].kind = "WildCard"
         /\ pattern.tokens[k].kind = "OneOfText"
         /\ Len(pattern.tokens[k].spans) >= 2
         /\ \E a \in 1..Len(pattern.tokens[k].spans) :
              pattern.tokens[k].spans[a][2] - pattern.tokens[k].spans[a][1] >= 2

\* ----------------------------------------------- C9, C10: matching a token
\* the alternatives of token k that are a prefix of the input at its cursor
MatchingChoices(k) ==
    {a \in 1..Len(matcher.tokens[k].spans) :
        starts_with(Rest(Cursor(k - 1)), Deref(text, matcher.tokens[k].spans[a]))}

\* the tokens the last call tried: the matched ones and the one that failed
Tried == 1..(IF Len(match_result) < Len(matcher.tokens)
             THEN Len(match_result) + 1 ELSE Len(match_result))

\* C9: a OneOfText token matches iff at least one alternative is a prefix of
\* the remaining input; the matched substring is then the matching
\* alternative of greatest byte length, wherever it is listed, and the
\* cursor advances by that length.
C9_LongestAlternativeWins ==
    Called =>
        \A k \in Tried :
            matcher.tokens[k].kind = "OneOfText" =>
                /\ k <= Len(match_result) <=> MatchingChoices(k) # {}
                /\ k <= Len(match_result) =>
                     \E a \in MatchingChoices(k) :
                        LET alt == Deref(text, matcher.tokens[k].spans[a])
                        IN  /\ match_result[k].matched = alt
                            /\ Cursor(k) = Cursor(k - 1) + len(alt)
                            /\ \A b \in MatchingChoices(k) :
                                 len(Deref(text, matcher.tokens[k].spans[b]))
                                     <= len(alt)

\* C9 witness: `(a|ab)` matched "ab", its second alternative, on "abx".
C9_Witness ==
    /\ Called
    /\ text = LongerSecond /\ string = CandidateD
    /\ Len(match_result) = 1
    /\ match_result[1].matched = <<"a", "b">>
    /\ MatchingChoices(1) = {1, 2}

\* C10: match_string never panics: after every token the cursor is at most
\* the input's byte length and on a codepoint boundary, and every matched
\* substring is a valid slice of the input.
C10_MatchNeverPanics ==
    /\ pc # "match_panic"
    /\ Called =>
         \A k \in 0..Len(match_result) :
            /\ Cursor(k) <= len(string)
            /\ is_char_boundary(string, Cursor(k))
            /\ k >= 1 => SliceOk(string, Cursor(k - 1), Cursor(k))

\* C10 witness: a wildcard matched a multi-byte codepoint and the token
\* after it matched at the cursor behind all its bytes.
C10_Witness ==
    /\ Called
    /\ \E k \in 1..Len(match_result) :
         /\ matcher.tokens[k].kind = "WildCard"
         /\ len(match_result[k].matched) >= 2
         /\ k < Len(match_result)
\* ------------------------------------------------ C11, C12: cursor and bytes
\* the matched substrings of the first k pairs, one after the other
RECURSIVE Concat(_)
Concat(k) == IF k = 0 THEN <<>> ELSE Concat(k - 1) \o match_result[k].matched

\* C11: after each matched token the byte lengths of the matched substrings
\* so far add up to the cursor, do not exceed the input's byte length, and
\* the substrings concatenated are the input's prefix of that length.
C11_PrefixBounded ==
    Called =>
        \A k \in 1..Len(match_result) :
            /\ Cursor(k) = match_result[k].till
            /\ match_result[k].till <= len(string)
            /\ Concat(k) = SubSeq(string, 1, match_result[k].till)

\* C11 witness: three tokens matched a proper prefix of an input with a
\* multi-byte codepoint in the matched part.
C11_Witness ==
    /\ Called
    /\ Len(match_result) >= 3
    /\ match_result[Len(match_result)].till < len(string)
    /\ \E b \in 1..match_result[Len(match_result)].till :
         IsContinuation(string[b])

\* C12: a WildCard token matches iff the remaining input is not empty; the
\* matched substring is the whole encoding of the first codepoint of the
\* remaining input and the cursor moves by that codepoint's byte length.
C12_WildCardTakesOneCodepoint ==
    Called =>
        \A k \in Tried :
            matcher.tokens[k].kind = "WildCard" =>
                LET rest == Rest(Cursor(k - 1))
                IN  /\ k <= Len(match_result) <=> rest # <<>>
                    /\ k <= Len(match_result) =>
                         /\ match_result[k].matched = Utf8(rest[1])
                         /\ match_result[k].till =
                               Cursor(k - 1) + len_utf8(rest[1])

\* C12 witness: the wildcard of simple_test matched all four bytes of
\* U+1F4AA, the last codepoint of the second candidate.
C12_Witness ==
    /\ Called
    /\ text = TestPattern /\ string = Candidate2
    /\ Len(match_result) = 3
    /\ match_result[3].matched = <<"M", "~M", "~M", "~M">>
    /\ match_result[3].till = 8
\* --------------------------------------------- C13, C14: totality and spans
\* all spans of a token sequence, in token order and alternative order
RECURSIVE AllSpans(_)
AllSpans(toks) ==
    IF toks = <<>> THEN <<>> ELSE Head(toks).spans \o AllSpans(Tail(toks))

ParseStep ==
    ScanDot \/ ScanOpen \/ ScanPipe \/ ScanClose \/ ScanLiteral \/ ParseEnd

\* parse_into has not crashed; while it scans, the iterator is within the
\* pattern and a step is possible; when it has returned, the result is a
\* token sequence whose spans are valid, non-empty slices of the pattern, or
\* one of the five kinds without any token
C13_State ==
    /\ pc # "parse_panic"
    /\ pc = "scan" =>
         /\ c_idx <= Len(text)
         /\ is_char_boundary(text, c_idx)
         /\ ENABLED ParseStep
    /\ Parsed =>
         \/ /\ pattern.tag = "Ok"
            /\ pattern.err = "None"
            /\ \A k \in 1..Len(AllSpans(pattern.tokens)) :
                 LET sp == AllSpans(pattern.tokens)[k]
                 IN  /\ sp[1] < sp[2]
                     /\ sp[2] <= len(text)
                     /\ SliceOk(text, sp[1], sp[2])
         \/ /\ pattern.tag = "Err"
            /\ pattern.err \in ErrorKinds
            /\ pattern.tokens = <<>>

\* C13: compilation is total: for every pattern parse_into terminates (each
\* step of the scan consumes at least one byte of the pattern and a step is
\* always possible) with a complete token sequence or exactly one of the
\* five ParseError kinds, never crashes, and on error returns no tokens.
C13_CompilationTotal ==
    /\ []C13_State
    /\ [][(pc = "scan" /\ pc' = "scan") => c_idx' > c_idx]_vars

\* C13 witness: a pattern has compiled whose literal run starts with a
\* multi-byte codepoint and ends before a delimiter.
C13_Witness ==
    /\ Parsed /\ pattern.tag = "Ok"
    /\ \E k \in 1..Len(AllSpans(pattern.tokens)) :
         LET sp == AllSpans(pattern.tokens)[k]
         IN  /\ text[sp[1] + 1] = "E"
             /\ sp[2] < len(text)

\* C14: in a successfully compiled token sequence the spans of the RawText
\* tokens and OneOfText alternatives, taken in token order and alternative
\* order, are non-overlapping byte ranges in strictly increasing offset
\* order, and no span contains a delimiter.
C14_SpansOrderedDisjoint ==
    (Parsed /\ pattern.tag = "Ok") =>
        LET sp == AllSpans(pattern.tokens)
        IN  /\ \A k \in 1..(Len(sp) - 1) :
                 /\ sp[k][1] < sp[k + 1][1]
                 /\ sp[k][2] <= sp[k + 1][1]
            /\ \A k \in 1..Len(sp) :
                 \A b \in (sp[k][1] + 1)..sp[k][2] : text[b] \notin Delims

\* C14 witness: a compiled pattern with a RawText before a group of two
\* alternatives and a RawText after it.
C14_Witness ==
    /\ Parsed /\ pattern.tag = "Ok"
    /\ \E k \in 1..(Len(pattern.tokens) - 2) :
         /\ pattern.tokens[k].kind = "RawText"
         /\ pattern.tokens[k + 1].kind = "OneOfText"
         /\ Len(pattern.tokens[k + 1].spans) >= 2
         /\ \E j \in (k + 2)..Len(pattern.tokens) :
              pattern.tokens[j].kind = "RawText"
\* ------------------------------------------ C18, C19: the parser's own state
\* parse_into is running or has returned: its locals are meaningful
InParse == pc \in {"scan", "parsed", "ready"}

\* the positions of the `(` of pattern t, in increasing order
Opens(t) == Sorted({i \in 1..Len(t) : t[i] = "("})

\* the OneOfText tokens of a token sequence, in order
RECURSIVE Groups(_)
Groups(toks) ==
    IF toks = <<>> THEN <<>>
    ELSE IF Head(toks).kind = "OneOfText"
         THEN <<Head(toks)>> \o Groups(Tail(toks))
         ELSE Groups(Tail(toks))

\* C18: while parsing, the pending alternatives are empty whenever the mode
\* is Standalone, so every emitted OneOfText holds exactly the literal runs
\* between its own `(` and `)`, nothing left over from an earlier group.
C18_PendingEmptyInStandalone ==
    InParse =>
        /\ parse_mode = "Standalone" => oneof_choices = <<>>
        /\ \A g \in 1..Len(Groups(mat_toks)) :
             Groups(mat_toks)[g] = ExpectedToken(text, Opens(text)[g])

\* C18 witness: two groups have been emitted, the first with an alternative
\* that the second does not have, and the scan is in Standalone mode.
C18_Witness ==
    /\ InParse /\ parse_mode = "Standalone"
    /\ Len(Groups(mat_toks)) >= 2
    /\ Len(Groups(mat_toks)[1].spans) >= 1
    /\ Len(Groups(mat_toks)[2].spans) >= 1
    /\ \A a \in 1..Len(Groups(mat_toks)[2].spans) :
         Groups(mat_toks)[2].spans[a] # Groups(mat_toks)[1].spans[1]

\* C19: a compiled token sequence has no empty RawText, no empty OneOfText
\* alternative and no two adjacent RawText tokens; while scanning, an open
\* run marker always marks the start of the literal run that ends at the
\* current offset, so a run never spans a delimiter.
C19_NoEmptyNoAdjacentRuns ==
    /\ pc = "scan" =>
         \A st \in cur_tok_start :
            /\ st < bytes_so_far
            /\ \A b \in (st + 1)..bytes_so_far : text[b] \notin Delims
            /\ st = 0 \/ text[st] \in Delims
    /\ (Parsed /\ pattern.tag = "Ok") =>
         /\ \A k \in 1..Len(AllSpans(pattern.tokens)) :
              AllSpans(pattern.tokens)[k][1] < AllSpans(pattern.tokens)[k][2]
         /\ \A k \in 1..(Len(pattern.tokens) - 1) :
              ~(pattern.tokens[k].kind = "RawText"
                  /\ pattern.tokens[k + 1].kind = "RawText")

\* C19 witness: a compiled pattern in which delimiters follow each other
\* directly, so that empty runs were met, and which ends with a literal run.
C19_Witness ==
    /\ Parsed /\ pattern.tag = "Ok"
    /\ \E i \in 1..(Len(text) - 1) : text[i] \in Delims /\ text[i + 1] \in Delims
    /\ Len(pattern.tokens) >= 3
    /\ pattern.tokens[Len(pattern.tokens)].kind = "RawText"

MinOf(a, b) == IF a <= b THEN a ELSE b

\* C20: every matched token consumes at least one byte of the input, so a
\* trace is at most as long as the token sequence and as the input's byte
\* length, and most_tokens_matched never exceeds the token count.
C20_EveryMatchConsumes ==
    /\ matcher.most_tokens_matched <= Len(matcher.tokens)
    /\ Called =>
         /\ \A k \in 1..Len(match_result) : len(match_result[k].matched) >= 1
         /\ Len(match_result) <= MinOf(Len(matcher.tokens), len(string))

\* C20 witness: a call matched as many tokens as the input has bytes although
\* more tokens follow, after a call that matched every token.
C20_Witness ==
    /\ Called
    /\ Len(match_result) = len(string)
    /\ Len(match_result) >= 2
    /\ Len(match_result) < Len(matcher.tokens)
    /\ matcher.most_tokens_matched = Len(matcher.tokens)
\* ------------------------------------------------------- C15: frame of a call
\* a step that is a match_string call on instance i
CallStep(i) ==
    /\ pc = "ready" /\ pc' = "ready"
    /\ other'.some = other.some
    /\ callee' = i

\* C15: a match_string call changes nothing but the most_tokens_matched of
\* the Matcher it is called on: the pattern text and both token sequences
\* stay as they are, the other instance (compiled from the same pattern)
\* keeps its counter, and a call with the input of the call before it
\* returns the same trace, whichever instance, counter and history it meets.
C15_CallChangesOnlyOwnCounter ==
    [][\A i \in {1, 2} :
          CallStep(i) =>
            /\ text' = text
            /\ pattern' = pattern
            /\ matcher'.some = matcher.some
            /\ matcher'.tokens = matcher.tokens
            /\ other'.tokens = other.tokens
            /\ i = 1 => other' = other
            /\ i = 2 => matcher' = matcher
            /\ (callee # 0 /\ string' = string) => match_result' = match_result
      ]_vars

\* C15 witness: the last call was made on the second instance, whose counter
\* is lower than that of the first although both were compiled from the same
\* pattern and have both matched something.
C15_Witness ==
    /\ pc = "ready" /\ matcher.some /\ other.some
    /\ callee = 2
    /\ other.most_tokens_matched >= 1
    /\ matcher.most_tokens_matched > other.most_tokens_matched
    /\ Len(match_result) < other.most_tokens_matched
\* ------------------------------------------------------ C16: WordIterator
\* the space-delimited words of s: the runs of bytes between spaces, in
\* order, each ended by a space or by the end of s; nothing follows the last
\* space of a string that ends with one
RECURSIVE WordsOf(_)
WordsOf(s) ==
    IF s = <<>> THEN <<>>
    ELSE LET idx == index_of_next_space(s)
         IN  <<SubSeq(s, 1, idx)>> \o WordsOf(SubSeq(s, idx + 2, Len(s)))

\* C16 (as stated): for any string, repeated next_word calls return the
\* space-delimited words in order and None ever after; no call fails and
\* position never exceeds the string's length, whether or not the string
\* ends with a space.
C16_NextWordNeverFails ==
    /\ wi_pc # "panic"
    /\ position <= len(wi_string)
    /\ Len(words_vector) <= Len(WordsOf(wi_string))
    /\ words_vector = SubSeq(WordsOf(wi_string), 1, Len(words_vector))
    /\ last_word = "None" => words_vector = WordsOf(wi_string)
\* --------------------------------------------------- C17: find_difference
\* the space-delimited words of s, as a set: the maximal space-free pieces
\* between two spaces or an end of s
WordSet(s) ==
    {SubSeq(s, ij[1], ij[2]) : ij \in
        {ij \in (1..(Len(s) + 1)) \X (0..Len(s)) :
            /\ ij[1] <= ij[2] + 1
            /\ ij[1] = 1 \/ s[ij[1] - 1] = " "
            /\ ij[2] = Len(s) \/ s[ij[2] + 1] = " "
            /\ \A k \in ij[1]..ij[2] : s[k] # " "}}

\* v is in strictly increasing order, hence sorted and free of duplicates
StrictlySorted(v) == \A k \in 1..(Len(v) - 1) : str_lt(v[k], v[k + 1])

\* C17: find_difference returns first_only as the sorted, duplicate-free
\* list of the words of sentence1 that are not words of sentence2, and
\* second_only likewise for sentence2 against sentence1; a word of both
\* sentences is in neither list.
C17_SortedSetDifference ==
    d_pc = "done" =>
        /\ StrictlySorted(first_only)
        /\ StrictlySorted(second_only)
        /\ collect(first_only) = WordSet(sentence1) \ WordSet(sentence2)
        /\ collect(second_only) = WordSet(sentence2) \ WordSet(sentence1)
        /\ collect(first_only) \cap collect(second_only) = {}

\* C17 witness: sentence1 repeats a word and lists two words that only it
\* has in descending order; the sentences share a word, and sentence2 has a
\* word of its own.
C17_Witness ==
    /\ d_pc = "done"
    /\ Len(first_only) >= 2
    /\ Len(second_only) >= 1
    /\ WordSet(sentence1) \cap WordSet(sentence2) # {}
    /\ Len(split(sentence1)) > Cardinality(WordSet(sentence1))
    /\ \E i, j \in 1..Len(split(sentence1)) :
         /\ i < j
         /\ split(sentence1)[i] \in collect(first_only)
         /\ split(sentence1)[j] \in collect(first_only)
         /\ str_lt(split(sentence1)[j], split(sentence1)[i])
====
